---- MODULE Spec2Model ----
(***************************************************************************)
(* Model of scripts/isaac_ros_nvblox_node.py: the launch/configuration     *)
(* script of the Isaac ROS NvbloxNode benchmark.                           *)
(*                                                                         *)
(* The state is what exists after the script has been evaluated and the    *)
(* harness has started calling its entry points: the class-level benchmark *)
(* configuration record, the node descriptors and container descriptions   *)
(* built so far by launch_setup (kept in creation order, a container       *)
(* holding references to its node descriptors), the value launch_setup     *)
(* returned last, and the number of run_benchmark invocations.             *)
(*                                                                         *)
(* Topic names are strings and are resolved the way ROS resolves them: a   *)
(* name starting with "/" is absolute, any other name is prefixed with the *)
(* node's namespace; a remapping rule replaces a name it matches.          *)
(***************************************************************************)
EXTENDS Integers, Sequences, FiniteSets, TLC

VARIABLES
    config,           \* TestIsaacROSNvbloxNode.config (class attribute)
    namespace,        \* what TestIsaacROSNvbloxNode.generate_namespace() returns
    nodes,            \* every ComposableNode built so far, in creation order
    containers,       \* every ComposableNodeContainer built so far
    calls,            \* the arguments of each launch_setup call so far
    returned,         \* the list the last launch_setup call returned
    testDescription,  \* what generate_test_description handed to the harness
    runs              \* number of run_benchmark invocations

vars == <<config, namespace, nodes, containers, calls, returned,
          testDescription, runs>>

\* ------------------------------------------------------------------ bounds
MaxLaunches == 2
MaxRuns == 2

\* Inputs the harness may pass to launch_setup, and namespaces it may use.
ContainerPrefixes == {"", "nsys profile"}
SigtermTimeouts == {5, 30}
Namespaces == {"/r2b", "/isaac_ros_benchmark"}

\* ------------------------------------------------------------ string helpers
StartsWith(s, p) == Len(s) >= Len(p) /\ SubSeq(s, 1, Len(p)) = p

EndsWith(s, p) == Len(s) >= Len(p) /\ SubSeq(s, Len(s) - Len(p) + 1, Len(s)) = p

Range(f) == {f[i] : i \in DOMAIN f}

\* A decimal parameter value, kept in thousandths (0.10 is Milli(100)).
Milli(n) == [milli |-> n]

\* --------------------------------------------------------------- constants
ROSBAG_PATH == "datasets/r2b_dataset/r2b_hideaway"

\* "The rosbag is about 5 seconds long, setting timeout accordingly"
RosbagDurationSec == 5

\* TestIsaacROSNvbloxNode.generate_namespace(): supplied by the harness base
\* class; the script calls it without arguments for every node and for the
\* container.
generate_namespace == namespace

\* MonitorPerformanceCalculatorsInfo(service_name, calculators)
MonitorPerformanceCalculatorsInfo(service_name, calculators) ==
    [service_name |-> service_name, calculators |-> calculators]

\* BasicPerformanceCalculator(config)
BasicPerformanceCalculator(cfg) ==
    [calculator |-> "BasicPerformanceCalculator", config |-> cfg]

\* ------------------------------------------------- the configuration record
\* A timeout that only equals the rosbag's duration.
ServiceTimeouts_short ==
    [start_recording_service_timeout_sec |-> 20,
     start_recording_service_future_timeout_sec |-> 25,
     start_monitoring_service_timeout_sec |-> 30,
     play_messages_service_future_timeout_sec |-> 5,
     default_service_future_timeout_sec |-> 35]

\* The five service timeouts of the configuration, in seconds.
ServiceTimeouts ==
    [start_recording_service_timeout_sec |-> 20,
     start_recording_service_future_timeout_sec |-> 25,
     start_monitoring_service_timeout_sec |-> 30,
     play_messages_service_future_timeout_sec |-> 25,
     default_service_future_timeout_sec |-> 35]

\* Both calculators registered under the first binding.
monitor_info_list_merged ==
    <<MonitorPerformanceCalculatorsInfo(
          "start_monitoring0",
          <<BasicPerformanceCalculator([report_prefix |-> "mesh"]),
            BasicPerformanceCalculator([report_prefix |-> "map_slice"])>>),
      MonitorPerformanceCalculatorsInfo(
          "start_monitoring1",
          <<BasicPerformanceCalculator([report_prefix |-> "map_slice"])>>)>>

\* monitor_info_list=[...]
monitor_info_list ==
    <<MonitorPerformanceCalculatorsInfo(
          "start_monitoring0",
          <<BasicPerformanceCalculator([report_prefix |-> "mesh"])>>),
      MonitorPerformanceCalculatorsInfo(
          "start_monitoring1",
          <<BasicPerformanceCalculator([report_prefix |-> "map_slice"])>>)>>

\* config = ROS2BenchmarkConfig(...), evaluated once with the class body.
TestIsaacROSNvbloxNode_config ==
    [benchmark_name |-> "Isaac ROS NvbloxNode Benchmark",
     input_data_path |-> ROSBAG_PATH,
     benchmark_mode |-> "TIMELINE",
     enable_trial_buffer_preparation |-> TRUE,
     load_data_in_real_time |-> TRUE,
     record_data_timeline |-> TRUE,
     publish_tf_static_messages_in_set_data |-> TRUE,
     playback_message_buffer_size |-> 0,
     start_recording_service_timeout_sec |->
         ServiceTimeouts.start_recording_service_timeout_sec,
     start_recording_service_future_timeout_sec |->
         ServiceTimeouts.start_recording_service_future_timeout_sec,
     start_monitoring_service_timeout_sec |->
         ServiceTimeouts.start_monitoring_service_timeout_sec,
     play_messages_service_future_timeout_sec |->
         ServiceTimeouts.play_messages_service_future_timeout_sec,
     default_service_future_timeout_sec |->
         ServiceTimeouts.default_service_future_timeout_sec,
     monitor_info_list |-> monitor_info_list]

\* ------------------------------------------------------ the node descriptors
\* ComposableNode(name, namespace, package, plugin, parameters, remappings,
\* extra_arguments); an argument the script leaves out is the empty list.
ComposableNode(name, ns, package, plugin, parameters, remappings, extra_arguments) ==
    [name |-> name,
     namespace |-> ns,
     package |-> package,
     plugin |-> plugin,
     parameters |-> parameters,
     remappings |-> remappings,
     extra_arguments |-> extra_arguments]

nvblox_node ==
    ComposableNode(
        "NvbloxNode",
        generate_namespace,
        "nvblox_ros",
        "nvblox::NvbloxNode",
        <<[global_frame |-> "odom",
           voxel_size |-> Milli(100),
           slice_height |-> Milli(750),
           min_height |-> Milli(300),
           max_height |-> Milli(1000),
           esdf |-> TRUE,
           esdf_2d |-> TRUE,
           mesh |-> TRUE,
           distance_slice |-> TRUE,
           tsdf_integrator_max_integration_distance_m |-> Milli(5000),
           tsdf_integrator_truncation_distance_vox |-> Milli(4000),
           tsdf_integrator_max_weight |-> Milli(20000),
           esdf_integrator_min_weight |-> Milli(2000),
           esdf_integrator_max_distance_m |-> Milli(2000),
           esdf_integrator_min_site_distance_vox |-> Milli(1000),
           max_tsdf_update_hz |-> Milli(0),
           max_color_update_hz |-> Milli(5000),
           max_mesh_update_hz |-> Milli(0),
           max_esdf_update_hz |-> Milli(0)],
          [use_sim_time |-> FALSE]>>,
        <<<<"depth/image", "depth">>,
          <<"depth/camera_info", "depth/camera_info">>,
          <<"color/image", "left/rgb">>,
          <<"color/camera_info", "left/camera_info">>>>,
        <<>>)

\* DataLoaderNode remapped straight onto NvbloxNode's input topics.
data_loader_node_unbuffered ==
    ComposableNode(
        "DataLoaderNode",
        generate_namespace,
        "ros2_benchmark",
        "ros2_benchmark::DataLoaderNode",
        <<[publisher_period_ms |-> 1]>>,
        <<<<"d455_1_depth_image", "depth">>,
          <<"d455_1_depth_camera_info", "depth/camera_info">>,
          <<"d455_1_rgb_image", "left/rgb">>,
          <<"d455_1_rgb_camera_info", "left/camera_info">>>>,
        <<>>)

data_loader_node ==
    ComposableNode(
        "DataLoaderNode",
        generate_namespace,
        "ros2_benchmark",
        "ros2_benchmark::DataLoaderNode",
        <<[publisher_period_ms |-> 1]>>,
        <<<<"d455_1_depth_image", "data_loader/depth">>,
          <<"d455_1_depth_camera_info", "data_loader/depth/camera_info">>,
          <<"d455_1_rgb_image", "data_loader/left/rgb">>,
          <<"d455_1_rgb_camera_info", "data_loader/left/camera_info">>>>,
        <<>>)

\* VisualSlamNode with its /tf output left on /tf.
visual_slam_node_tf_unremapped ==
    ComposableNode(
        "VisualSlamNode",
        generate_namespace,
        "isaac_ros_visual_slam",
        "isaac_ros::visual_slam::VisualSlamNode",
        <<[enable_rectified_pose |-> TRUE,
           denoise_input_images |-> FALSE,
           rectified_images |-> TRUE]>>,
        <<<<"stereo_camera/left/image", "hawk_0_left_rgb_image">>,
          <<"stereo_camera/left/camera_info", "hawk_0_left_rgb_camera_info">>,
          <<"stereo_camera/right/image", "hawk_0_right_rgb_image">>,
          <<"stereo_camera/right/camera_info", "hawk_0_right_rgb_camera_info">>>>,
        <<[use_intra_process_comms |-> FALSE]>>)

visual_slam_node ==
    ComposableNode(
        "VisualSlamNode",
        generate_namespace,
        "isaac_ros_visual_slam",
        "isaac_ros::visual_slam::VisualSlamNode",
        <<[enable_rectified_pose |-> TRUE,
           denoise_input_images |-> FALSE,
           rectified_images |-> TRUE]>>,
        <<<<"stereo_camera/left/image", "hawk_0_left_rgb_image">>,
          <<"stereo_camera/left/camera_info", "hawk_0_left_rgb_camera_info">>,
          <<"stereo_camera/right/image", "hawk_0_right_rgb_image">>,
          <<"stereo_camera/right/camera_info", "hawk_0_right_rgb_camera_info">>,
          <<"/tf", "visual_slam/tf">>>>,
        <<[use_intra_process_comms |-> FALSE]>>)

\* PlaybackNode with the formats of channels 1 and 2 exchanged.
playback_node_formats_swapped ==
    ComposableNode(
        "PlaybackNode",
        generate_namespace,
        "isaac_ros_benchmark",
        "isaac_ros_benchmark::NitrosPlaybackNode",
        <<[data_formats |-> <<"sensor_msgs/msg/Image",
                              "sensor_msgs/msg/Image",
                              "sensor_msgs/msg/CameraInfo",
                              "sensor_msgs/msg/CameraInfo",
                              "tf2_msgs/msg/TFMessage">>]>>,
        <<<<"buffer/input0", "data_loader/depth">>,
          <<"input0", "depth">>,
          <<"buffer/input1", "data_loader/depth/camera_info">>,
          <<"input1", "depth/camera_info">>,
          <<"buffer/input2", "data_loader/left/rgb">>,
          <<"input2", "left/rgb">>,
          <<"buffer/input3", "data_loader/left/camera_info">>,
          <<"input3", "left/camera_info">>,
          <<"buffer/input4", "visual_slam/tf">>,
          <<"input4", "/tf">>>>,
        <<>>)

playback_node ==
    ComposableNode(
        "PlaybackNode",
        generate_namespace,
        "isaac_ros_benchmark",
        "isaac_ros_benchmark::NitrosPlaybackNode",
        <<[data_formats |-> <<"sensor_msgs/msg/Image",
                              "sensor_msgs/msg/CameraInfo",
                              "sensor_msgs/msg/Image",
                              "sensor_msgs/msg/CameraInfo",
                              "tf2_msgs/msg/TFMessage">>]>>,
        <<<<"buffer/input0", "data_loader/depth">>,
          <<"input0", "depth">>,
          <<"buffer/input1", "data_loader/depth/camera_info">>,
          <<"input1", "depth/camera_info">>,
          <<"buffer/input2", "data_loader/left/rgb">>,
          <<"input2", "left/rgb">>,
          <<"buffer/input3", "data_loader/left/camera_info">>,
          <<"input3", "left/camera_info">>,
          <<"buffer/input4", "visual_slam/tf">>,
          <<"input4", "/tf">>>>,
        <<>>)

monitor_node0 ==
    ComposableNode(
        "MonitorNode0",
        generate_namespace,
        "isaac_ros_benchmark",
        "isaac_ros_benchmark::NitrosMonitorNode",
        <<[monitor_data_format |-> "nvblox_msgs/msg/Mesh",
           monitor_index |-> 0]>>,
        <<<<"output", "NvbloxNode/mesh">>>>,
        <<>>)

\* MonitorNode1 copied from MonitorNode0 with the index left at 0.
monitor_node1_index0 ==
    ComposableNode(
        "MonitorNode1",
        generate_namespace,
        "isaac_ros_benchmark",
        "isaac_ros_benchmark::NitrosMonitorNode",
        <<[monitor_data_format |-> "nvblox_msgs/msg/DistanceMapSlice",
           monitor_index |-> 0]>>,
        <<<<"output", "NvbloxNode/map_slice">>>>,
        <<>>)

monitor_node1 ==
    ComposableNode(
        "MonitorNode1",
        generate_namespace,
        "isaac_ros_benchmark",
        "isaac_ros_benchmark::NitrosMonitorNode",
        <<[monitor_data_format |-> "nvblox_msgs/msg/DistanceMapSlice",
           monitor_index |-> 1]>>,
        <<<<"output", "NvbloxNode/map_slice">>>>,
        <<>>)

\* The descriptors one launch_setup call constructs, in construction order.
NewNodes ==
    <<nvblox_node, data_loader_node, visual_slam_node, playback_node,
      monitor_node0, monitor_node1>>

\* Constructing objects adds them to those that exist; nothing that exists
\* is touched.
Allocate(heap, objs) == heap \o objs

\* The container listing the descriptors in construction order, NvbloxNode
\* first.
composable_node_container_construction_order(container_prefix, container_sigterm_timeout, base) ==
    [name |-> "container",
     namespace |-> generate_namespace,
     package |-> "rclcpp_components",
     executable |-> "component_container_mt",
     prefix |-> container_prefix,
     sigterm_timeout |-> container_sigterm_timeout,
     composable_node_descriptions |->
         <<base + 1, base + 2, base + 3, base + 4, base + 5, base + 6>>,
     output |-> "screen"]

\* composable_node_container = ComposableNodeContainer(...); base is the
\* number of descriptors that existed before this call, so base + k is the
\* k-th descriptor the call constructed.
composable_node_container(container_prefix, container_sigterm_timeout, base) ==
    [name |-> "container",
     namespace |-> generate_namespace,
     package |-> "rclcpp_components",
     executable |-> "component_container_mt",
     prefix |-> container_prefix,
     sigterm_timeout |-> container_sigterm_timeout,
     composable_node_descriptions |->
         <<base + 2,     \* data_loader_node
           base + 3,     \* visual_slam_node
           base + 4,     \* playback_node
           base + 5,     \* monitor_node0
           base + 6,     \* monitor_node1
           base + 1>>,   \* nvblox_node
     output |-> "screen"]

\* ------------------------------------------------------------------- wiring
\* ROS name resolution: an absolute name stands as it is, a relative name
\* lives in the node's namespace.
Resolve(ns, name) == IF StartsWith(name, "/") THEN name ELSE ns \o "/" \o name

\* The node's private namespace: where its "~/..." topics live.
PrivateNamespace(node) == Resolve(node.namespace, node.name)

\* The physical topic behind a node's logical name: the target of the first
\* remapping rule that matches the name, or the name itself.
RemapTopic(node, name) ==
    LET ns == node.namespace
        hits == {i \in DOMAIN node.remappings :
                     Resolve(ns, node.remappings[i][1]) = Resolve(ns, name)}
    IN  IF hits = {}
        THEN Resolve(ns, name)
        ELSE Resolve(ns, node.remappings[CHOOSE i \in hits : \A j \in hits : i <= j][2])

\* Logical endpoints of the nodes the script wires, as far as the script
\* names them.  DataLoaderNode publishes the messages it loads.
DataLoaderPublishers ==
    {"d455_1_depth_image", "d455_1_depth_camera_info",
     "d455_1_rgb_image", "d455_1_rgb_camera_info"}

\* VisualSlamNode consumes a stereo pair and publishes odom TF messages.
VisualSlamSubscribers ==
    {"stereo_camera/left/image", "stereo_camera/left/camera_info",
     "stereo_camera/right/image", "stereo_camera/right/camera_info"}

VisualSlamPublishers == {"/tf"}

\* NvbloxNode, the graph under test, consumes depth and colour streams.
NvbloxSubscribers ==
    {"depth/image", "depth/camera_info", "color/image", "color/camera_info"}

\* PlaybackNode has one channel per entry of data_formats; channel i records
\* from buffer/input{i} and plays back on input{i}.
PlaybackChannels(node) == 0 .. (Len(node.parameters[1].data_formats) - 1)

PlaybackSubscribers(node) ==
    {"buffer/input" \o ToString(i) : i \in PlaybackChannels(node)}

PlaybackPublishers(node) ==
    {"input" \o ToString(i) : i \in PlaybackChannels(node)}

\* A monitor node observes one topic, "output".
MonitorSubscribers == {"output"}

Publishers(node) ==
    CASE node.plugin = "ros2_benchmark::DataLoaderNode" -> DataLoaderPublishers
      [] node.plugin = "isaac_ros::visual_slam::VisualSlamNode" -> VisualSlamPublishers
      [] node.plugin = "isaac_ros_benchmark::NitrosPlaybackNode" -> PlaybackPublishers(node)
      [] OTHER -> {}

Subscribers(node) ==
    CASE node.plugin = "isaac_ros::visual_slam::VisualSlamNode" -> VisualSlamSubscribers
      [] node.plugin = "isaac_ros_benchmark::NitrosPlaybackNode" -> PlaybackSubscribers(node)
      [] node.plugin = "isaac_ros_benchmark::NitrosMonitorNode" -> MonitorSubscribers
      [] node.plugin = "nvblox::NvbloxNode" -> NvbloxSubscribers
      [] OTHER -> {}

PublishedTopics(node) == {RemapTopic(node, l) : l \in Publishers(node)}

SubscribedTopics(node) == {RemapTopic(node, l) : l \in Subscribers(node)}

\* The message type an endpoint carries, read off its logical name.
MessageTypeOf(l) ==
    IF EndsWith(l, "camera_info") THEN "sensor_msgs/msg/CameraInfo"
    ELSE IF EndsWith(l, "image") THEN "sensor_msgs/msg/Image"
    ELSE IF EndsWith(l, "tf") THEN "tf2_msgs/msg/TFMessage"
    ELSE "unknown"

\* --- a container's nodes, by reference into nodes
NodeRefs(c) == Range(c.composable_node_descriptions)

RefsNamed(c, name) == {r \in NodeRefs(c) : nodes[r].name = name}

RefsWithPlugin(c, plugin) == {r \in NodeRefs(c) : nodes[r].plugin = plugin}

PublishersOf(c, t) == {nodes[r].name : r \in {q \in NodeRefs(c) : t \in PublishedTopics(nodes[q])}}

SubscribersOf(c, t) == {nodes[r].name : r \in {q \in NodeRefs(c) : t \in SubscribedTopics(nodes[q])}}

\* ------------------------------------------------------------------ actions
Init ==
    /\ config = TestIsaacROSNvbloxNode_config
    /\ namespace \in Namespaces
    /\ nodes = <<>>
    /\ containers = <<>>
    /\ calls = <<>>
    /\ returned = <<>>
    /\ testDescription = <<>>
    /\ runs = 0

\* launch_setup(container_prefix, container_sigterm_timeout)
LaunchSetup(container_prefix, container_sigterm_timeout) ==
    /\ Len(containers) < MaxLaunches
    /\ nodes' = Allocate(nodes, NewNodes)
    /\ containers' = Allocate(containers,
           <<composable_node_container(container_prefix,
                                       container_sigterm_timeout, Len(nodes))>>)
    /\ calls' = Append(calls, [container_prefix |-> container_prefix,
                               container_sigterm_timeout |-> container_sigterm_timeout])
    /\ returned' = <<Len(containers) + 1>>
    /\ UNCHANGED <<config, namespace, testDescription, runs>>

\* generate_test_description(): hands the launch_setup hook to the harness
\* and returns what the harness makes of it.
GenerateTestDescription ==
    /\ testDescription' = <<"launch_setup">>
    /\ UNCHANGED <<config, namespace, nodes, containers, calls, returned, runs>>

\* test_benchmark switching the shared configuration to another mode before
\* the run.
TestBenchmark_overrides_config ==
    /\ runs < MaxRuns
    /\ runs' = runs + 1
    /\ config' = [config EXCEPT !.benchmark_mode = "LOOPING"]
    /\ UNCHANGED <<namespace, nodes, containers, calls, returned, testDescription>>

\* TestIsaacROSNvbloxNode.test_benchmark(self): self.run_benchmark()
TestBenchmark ==
    /\ runs < MaxRuns
    /\ runs' = runs + 1
    /\ UNCHANGED <<config, namespace, nodes, containers, calls, returned,
                   testDescription>>

Next ==
    \/ \E p \in ContainerPrefixes, t \in SigtermTimeouts : LaunchSetup(p, t)
    \/ GenerateTestDescription
    \/ TestBenchmark

Spec == Init /\ [][Next]_vars

\* ------------------------------------------------------------------- claims
\* the container the last launch_setup call returned
Last == containers[returned[1]]

\* The five topics NvbloxNode is fed on: the targets of its four remapped
\* inputs and the absolute topic /tf.
NvbloxInputTopics(c) ==
    UNION {SubscribedTopics(nodes[r]) : r \in RefsNamed(c, "NvbloxNode")} \cup {"/tf"}

\* C2: in every container launch_setup has built, each topic NvbloxNode is
\* fed on (its four remapped inputs and /tf) is published by PlaybackNode and
\* by no other node; what DataLoaderNode and VisualSlamNode publish is
\* subscribed to by PlaybackNode alone and every topic PlaybackNode records
\* comes from one of the two; the monitors subscribe only to topics in
\* NvbloxNode's private namespace, which no other node publishes.
C2_WiredPipeline ==
    \A k \in DOMAIN containers :
        LET c == containers[k]
            feeders == RefsNamed(c, "DataLoaderNode") \cup RefsNamed(c, "VisualSlamNode")
            monitors == RefsWithPlugin(c, "isaac_ros_benchmark::NitrosMonitorNode")
        IN  /\ Cardinality(NvbloxInputTopics(c)) = 5
            /\ \A t \in NvbloxInputTopics(c) : PublishersOf(c, t) = {"PlaybackNode"}
            /\ \A r \in feeders : \A t \in PublishedTopics(nodes[r]) :
                   SubscribersOf(c, t) = {"PlaybackNode"}
            /\ \A r \in RefsNamed(c, "PlaybackNode") :
                   /\ \A t \in SubscribedTopics(nodes[r]) :
                          /\ PublishersOf(c, t) # {}
                          /\ PublishersOf(c, t) \subseteq {"DataLoaderNode", "VisualSlamNode"}
                   /\ \A t \in PublishedTopics(nodes[r]) :
                          SubscribersOf(c, t) \subseteq {"NvbloxNode"}
            /\ Cardinality(monitors) = 2
            /\ \A m \in monitors : \A t \in SubscribedTopics(nodes[m]) :
                   /\ \E n \in RefsNamed(c, "NvbloxNode") :
                          StartsWith(t, PrivateNamespace(nodes[n]) \o "/")
                   /\ PublishersOf(c, t) = {}

C2_Witness ==
    /\ returned # <<>>
    /\ PublishersOf(Last, Resolve(namespace, "left/rgb")) = {"PlaybackNode"}
    /\ SubscribersOf(Last, Resolve(namespace, "left/rgb")) = {"NvbloxNode"}
    /\ SubscribersOf(Last, Resolve(namespace, "data_loader/left/rgb")) = {"PlaybackNode"}

\* C4 (state part): launch_setup returns a list of exactly one container,
\* the one it has just built, which carries the call's two arguments
\* unchanged and references exactly the six descriptors DataLoaderNode,
\* VisualSlamNode, PlaybackNode, MonitorNode0, MonitorNode1, NvbloxNode in
\* that order.
C4_LaunchResult ==
    /\ Len(calls) = Len(containers)
    /\ returned # <<>> => Len(returned) = 1 /\ returned[1] = Len(containers)
    /\ \A k \in DOMAIN containers :
           LET c == containers[k] IN
           /\ c.prefix = calls[k].container_prefix
           /\ c.sigterm_timeout = calls[k].container_sigterm_timeout
           /\ [i \in DOMAIN c.composable_node_descriptions |->
                   nodes[c.composable_node_descriptions[i]].name]
              = <<"DataLoaderNode", "VisualSlamNode", "PlaybackNode",
                  "MonitorNode0", "MonitorNode1", "NvbloxNode">>

\* C4 (step part): a step that invokes run_benchmark invokes it once and
\* changes nothing else.
C4_TestBenchmarkStep ==
    runs' # runs =>
        /\ runs' = runs + 1
        /\ UNCHANGED <<config, namespace, nodes, containers, calls, returned,
                       testDescription>>

\* C4: launch_setup returns exactly one container description carrying its
\* two arguments and the six node descriptors in order, and test_benchmark
\* does nothing but invoke run_benchmark once.
C4_HookEntryPoints == [][C4_LaunchResult' /\ C4_TestBenchmarkStep]_vars

C4_Witness ==
    /\ Len(containers) = 2
    /\ containers[1].prefix # containers[2].prefix
    /\ containers[1].sigterm_timeout # containers[2].sigterm_timeout
    /\ returned = <<2>>
    /\ runs = 1

\* C5: the configuration registers exactly two monitor bindings, named
\* start_monitoring0 and start_monitoring1, and each names exactly one
\* calculator whose configuration has the single key report_prefix, a string.
C5_TwoMonitorBindings ==
    LET l == config.monitor_info_list IN
    /\ Len(l) = 2
    /\ l[1].service_name = "start_monitoring0"
    /\ l[2].service_name = "start_monitoring1"
    /\ \A i \in DOMAIN l :
           /\ Len(l[i].calculators) = 1
           /\ DOMAIN l[i].calculators[1].config = {"report_prefix"}
           /\ l[i].calculators[1].config.report_prefix \in STRING

C5_Witness ==
    /\ runs > 0
    /\ testDescription # <<>>
    /\ Len(config.monitor_info_list) > 1
    /\ config.monitor_info_list[2].calculators[1].config.report_prefix = "map_slice"

\* C6 as stated: once the script is evaluated, no call creates a node
\* descriptor, changes one, or changes the configuration record.
C6_NoDescriptorCreatedAfterEvaluation ==
    [][nodes' = nodes /\ config' = config]_vars

\* C6 as amended: node descriptors are created by launch_setup, six per
\* call; no call changes a descriptor or a container that already exists,
\* only launch_setup creates any, and no call changes the configuration
\* record.
C6_DescriptorsImmutable ==
    [][/\ config' = config
       /\ Len(nodes') >= Len(nodes)
       /\ SubSeq(nodes', 1, Len(nodes)) = nodes
       /\ Len(containers') >= Len(containers)
       /\ SubSeq(containers', 1, Len(containers)) = containers
       /\ Len(nodes') = 6 * Len(containers')
       /\ (nodes' # nodes => Len(calls') = Len(calls) + 1)]_vars

C6_Witness ==
    /\ Len(nodes) = 12
    /\ runs > 0
    /\ testDescription # <<>>

\* C7: each of the five service timeouts of the configuration is greater
\* than the rosbag's duration of about 5 seconds.
C7_TimeoutsExceedRosbag ==
    /\ config.start_recording_service_timeout_sec > RosbagDurationSec
    /\ config.start_recording_service_future_timeout_sec > RosbagDurationSec
    /\ config.start_monitoring_service_timeout_sec > RosbagDurationSec
    /\ config.play_messages_service_future_timeout_sec > RosbagDurationSec
    /\ config.default_service_future_timeout_sec > RosbagDurationSec

C7_Witness ==
    /\ runs = MaxRuns
    /\ config.benchmark_mode = "TIMELINE"
    /\ config.start_recording_service_timeout_sec = 20

\* The target a node's remapping list gives for the logical name l, as the
\* script writes it.
RemapTarget(node, l) ==
    node.remappings[CHOOSE i \in DOMAIN node.remappings : node.remappings[i][1] = l][2]

\* The logical names under which the nodes of c other than self publish or
\* subscribe to the physical topic t.
EndpointsOn(c, self, t) ==
    UNION {{l \in Publishers(nodes[q]) \cup Subscribers(nodes[q]) :
                RemapTopic(nodes[q], l) = t} : q \in NodeRefs(c) \ {self}}

\* C8: PlaybackNode's data_formats has one entry per channel 0..4; the
\* remapped names are exactly buffer/input{i} and input{i} for these
\* channels, each once; the format at position i is the message type of the
\* endpoints of the other nodes on channel i's two topics; four channels
\* carry NvbloxNode's inputs, buffered from data_loader/<name>, and the
\* remaining one carries /tf, buffered from visual_slam/tf.
C8_PlaybackChannelsConsistent ==
    \A k \in DOMAIN containers :
        LET c == containers[k] IN
        /\ Cardinality(RefsNamed(c, "PlaybackNode")) = 1
        /\ \A r \in RefsNamed(c, "PlaybackNode") :
               LET p == nodes[r]
                   formats == p.parameters[1].data_formats
                   Buf(i) == RemapTarget(p, "buffer/input" \o ToString(i))
                   Out(i) == RemapTarget(p, "input" \o ToString(i))
                   sensor == {i \in 0 .. 4 :
                                 Resolve(p.namespace, Out(i)) \in
                                     NvbloxInputTopics(c) \ {"/tf"}}
               IN  /\ PlaybackChannels(p) = 0 .. 4
                   /\ Len(p.remappings) = 2 * Len(formats)
                   /\ {p.remappings[i][1] : i \in DOMAIN p.remappings}
                          = PlaybackSubscribers(p) \cup PlaybackPublishers(p)
                   /\ \A i \in 0 .. 4 :
                          LET ends == EndpointsOn(c, r, Resolve(p.namespace, Buf(i)))
                                      \cup EndpointsOn(c, r, Resolve(p.namespace, Out(i)))
                          IN  /\ ends # {}
                              /\ \A l \in ends : MessageTypeOf(l) = formats[i + 1]
                   /\ Cardinality(sensor) = 4
                   /\ \A i \in sensor : Buf(i) = "data_loader/" \o Out(i)
                   /\ \A i \in (0 .. 4) \ sensor :
                          Out(i) = "/tf" /\ Buf(i) = "visual_slam/tf"

C8_Witness ==
    /\ returned # <<>>
    /\ \E r \in RefsNamed(Last, "PlaybackNode") :
           /\ RemapTarget(nodes[r], "buffer/input3") = "data_loader/left/camera_info"
           /\ RemapTarget(nodes[r], "input3") = "left/camera_info"
           /\ nodes[r].parameters[1].data_formats[4] = "sensor_msgs/msg/CameraInfo"
           /\ "color/camera_info" \in
                  EndpointsOn(Last, r, Resolve(namespace, "left/camera_info"))

\* C9: the topics PlaybackNode buffers and the topics it publishes are
\* disjoint; the nodes that publish a buffered topic are DataLoaderNode and
\* VisualSlamNode, and neither subscribes to a topic PlaybackNode publishes;
\* VisualSlamNode's /tf goes to visual_slam/tf in its namespace, and
\* PlaybackNode is the only publisher of /tf.
C9_NoSelfRecording ==
    \A k \in DOMAIN containers :
        LET c == containers[k] IN
        /\ RefsNamed(c, "PlaybackNode") # {}
        /\ \A r \in RefsNamed(c, "PlaybackNode") :
               LET buffered == SubscribedTopics(nodes[r])
                   played == PublishedTopics(nodes[r])
                   feeders == {q \in NodeRefs(c) :
                                  PublishedTopics(nodes[q]) \cap buffered # {}}
               IN  /\ Cardinality(buffered) = 5
                   /\ Cardinality(played) = 5
                   /\ buffered \cap played = {}
                   /\ {nodes[q].name : q \in feeders} = {"DataLoaderNode", "VisualSlamNode"}
                   /\ \A q \in feeders : SubscribedTopics(nodes[q]) \cap played = {}
        /\ RefsNamed(c, "VisualSlamNode") # {}
        /\ \A v \in RefsNamed(c, "VisualSlamNode") :
               PublishedTopics(nodes[v]) = {Resolve(nodes[v].namespace, "visual_slam/tf")}
        /\ PublishersOf(c, "/tf") = {"PlaybackNode"}

C9_Witness ==
    /\ returned # <<>>
    /\ PublishersOf(Last, Resolve(namespace, "visual_slam/tf")) = {"VisualSlamNode"}
    /\ SubscribersOf(Last, Resolve(namespace, "visual_slam/tf")) = {"PlaybackNode"}
    /\ "PlaybackNode" \in PublishersOf(Last, "/tf")

\* C10: for each i in {0, 1} exactly one monitor node has monitor_index i
\* and exactly one binding is named start_monitoring{i}; there are two
\* monitor nodes and two bindings; the binding's report label is the name of
\* the NvbloxNode topic the node observes, and the node's format is Mesh for
\* mesh and DistanceMapSlice for map_slice.
C10_MonitorsMatchBindings ==
    \A k \in DOMAIN containers :
        LET c == containers[k]
            l == config.monitor_info_list
            monitors == RefsWithPlugin(c, "isaac_ros_benchmark::NitrosMonitorNode")
            WithIndex(i) == {m \in monitors : nodes[m].parameters[1].monitor_index = i}
            Named(i) == {j \in DOMAIN l : l[j].service_name = "start_monitoring" \o ToString(i)}
        IN  /\ Cardinality(monitors) = 2
            /\ Len(l) = 2
            /\ \A i \in {0, 1} :
                   /\ Cardinality(WithIndex(i)) = 1
                   /\ Cardinality(Named(i)) = 1
                   /\ \A m \in WithIndex(i) : \A j \in Named(i) :
                          LET label == l[j].calculators[1].config.report_prefix
                              format == nodes[m].parameters[1].monitor_data_format
                          IN  /\ RemapTarget(nodes[m], "output") = "NvbloxNode/" \o label
                              /\ label \in {"mesh", "map_slice"}
                              /\ label = "mesh" => format = "nvblox_msgs/msg/Mesh"
                              /\ label = "map_slice" =>
                                     format = "nvblox_msgs/msg/DistanceMapSlice"

C10_Witness ==
    /\ returned # <<>>
    /\ \E m \in RefsNamed(Last, "MonitorNode1") :
           /\ nodes[m].parameters[1].monitor_index = 1
           /\ RemapTarget(nodes[m], "output") = "NvbloxNode/map_slice"
    /\ config.monitor_info_list[2].service_name = "start_monitoring1"

====
